---- MODULE Spec2Model ----
(***************************************************************************)
(* Model of the diary journal (src/lib.go, src/main.go): the note tree on  *)
(* disk, the persisted state file .journal.json, the rendered index.md,    *)
(* the git history the change detection queries, and one invocation of    *)
(* the program at a time (OpenJournal, a command, Write, Commit).          *)
(* Of the git history the model keeps the commit count rev and the trees   *)
(* of the last two commits: Commit records the HEAD it finds and then adds *)
(* one commit, so the marker never names an older commit.  Of the older of *)
(* the two it keeps the .md files only: the commit is read by git diff     *)
(* alone, whose output lib.go:321 filters by the suffix .md.               *)
(*                                                                         *)
(* Strings the code inspects character by character (paths) are tuples of *)
(* one-character strings.  A line of a note is the tuple of its            *)
(* whitespace-separated fields (strings.Fields); a field is a record.      *)
(* A time.Time is a record of its calendar date, its time of day and its   *)
(* sub-second part, compared lexicographically.                            *)
(***************************************************************************)
EXTENDS Integers, Sequences, FiniteSets, TLC

\* ---------------------------------------------------------------- bounds
\* Number of commits the git history may reach.
MaxRev == 4
\* Number of (day, path) pairs the month index may hold when a run starts.
MaxDiary == 2
\* Number of times the user changes a file of the tree.
MaxEdits == 2
\* Number of I/O and subprocess failures.
MaxFaults == 1

\* ------------------------------------------------------- character strings
Digits == <<"0", "1", "2", "3", "4", "5", "6", "7", "8", "9">>

IsDigit(c) == \E i \in 1..10 : Digits[i] = c

DigitVal(c) == (CHOOSE i \in 1..10 : Digits[i] = c) - 1

RECURSIVE Atoi(_)
Atoi(s) == IF s = <<>> THEN 0
           ELSE 10 * Atoi(SubSeq(s, 1, Len(s) - 1)) + DigitVal(s[Len(s)])

\* fmt "%02d" / "%04d": n written with at least w decimal digits
RECURSIVE Itoa(_, _)
Itoa(n, w) == IF w = 0 THEN <<>>
              ELSE Itoa(n \div 10, w - 1) \o <<Digits[(n % 10) + 1]>>

HasSuffix(s, suf) ==
    /\ Len(s) >= Len(suf)
    /\ SubSeq(s, Len(s) - Len(suf) + 1, Len(s)) = suf

AllDigits(s) == \A i \in 1..Len(s) : IsDigit(s[i])

MdSuffix == <<".", "m", "d">>
IndexName == <<"i", "n", "d", "e", "x", ".", "m", "d">>
SlashIndexName == <<"/">> \o IndexName

\* ------------------------------------------------------------------ time
DaysIn(y, m) ==
    IF m \in {4, 6, 9, 11} THEN 30
    ELSE IF m = 2 THEN (IF (y % 4 = 0 /\ y % 100 # 0) \/ y % 400 = 0 THEN 29 ELSE 28)
    ELSE 31

ValidDate(d) == d[2] \in 1..12 /\ d[3] \in 1..DaysIn(d[1], d[2])
ValidTod(t) == t[1] \in 0..23 /\ t[2] \in 0..59 /\ t[3] \in 0..59

MkTime(d, t, ns) == [date |-> d, tod |-> t, nsec |-> ns]

\* time.ParseInLocation("2006-01-02T15:04:05", ..., time.Local): ok is FALSE
\* when the layout parses but a field is out of range
ParseInLocation(d, t) ==
    [ok |-> ValidDate(d) /\ ValidTod(t), time |-> MkTime(d, t, 0)]

FormatDate(tm) == tm.date
FormatTod(tm) == tm.tod

RECURSIVE LexLess(_, _)
LexLess(a, b) ==
    IF a = <<>> \/ b = <<>> THEN FALSE
    ELSE IF Head(a) # Head(b) THEN Head(a) < Head(b)
    ELSE LexLess(Tail(a), Tail(b))

TimeKey(tm) == tm.date \o tm.tod \o <<tm.nsec>>

\* a.After(b)
After(a, b) == LexLess(TimeKey(b), TimeKey(a))

\* ------------------------------------------------------- fields of a line
W(s) == [k |-> "word", w |-> s, p |-> <<>>, t |-> <<>>]
\* the field "HH:MM:SS"
Hms(h, m, s) == [k |-> "time", w |-> "", p |-> <<>>, t |-> <<h, m, s>>]
\* the field "*[CAT](path#HH:MM:SS)*"
Link(cat, path, t) == [k |-> "link", w |-> cat, p |-> path, t |-> t]

MarkDoing == W("*DOING*")
MarkTodo == W("*TODO*")
MarkLater == W("*LATER*")

\* mdTimePattern: ^##\s+(\d\d:\d\d:\d\d)\s*$
IsTimeHeader(line) == Len(line) = 2 /\ line[1] = W("##") /\ line[2].k = "time"

\* ------------------------------------------------------------ the notes
PathA == <<"a", ".", "m", "d">>
PathDiary == <<"2", "0", "2", "4", "/", "0", "3", "/",
               "2", "0", "2", "4", "-", "0", "3", "-", "0", "5", ".", "m", "d">>
NotePaths == {PathA, PathDiary}

\* note texts the editor may leave in a file
TextMixed == << <<W("z"), MarkTodo>>, <<W("##"), Hms(9, 0, 0)>>,
               <<MarkDoing, W("x"), MarkLater>>, <<W("y"), MarkTodo>> >>
TextPlain == << <<W("hello")>> >>
Texts == {TextMixed, TextPlain}

\* modification times the file system may stamp on a written note
MTimes == {MkTime(<<2024, 3, 5>>, <<9, 0, 0>>, 1)}

\* wall clock of the runs (time.Now)
Nows == {MkTime(<<2024, 3, 5>>, <<10, 0, 0>>, 0)}

\* ---------------------------------------------------------- Go maps
EmptyMap == [p \in {} |-> <<>>]
Put(m, k, v) == [p \in DOMAIN m \cup {k} |-> IF p = k THEN v ELSE m[p]]
Del(m, k) == [p \in DOMAIN m \ {k} |-> m[p]]
\* m[k] of a map of slices: the nil slice when k is absent
Get(m, k) == IF k \in DOMAIN m THEN m[k] ELSE <<>>

\* ------------------------------------------------------- the file system
ZeroTime == MkTime(<<1, 1, 1>>, <<0, 0, 0>>, 0)
NoFile == [exists |-> FALSE, text |-> <<>>, mtime |-> ZeroTime]
MkFile(text, mt) == [exists |-> TRUE, text |-> text, mtime |-> mt]

\* ------------------------------------------------------------- Journal
\* Hash "" is 0; a revision identifier is the position of its commit.
EmptyHash == 0
NilDiary == [nil |-> TRUE, m |-> EmptyMap]
MadeDiary == [nil |-> FALSE, m |-> EmptyMap]

\* the Journal literal of OpenJournal: Diary is left nil
DefaultJournal ==
    [Hash |-> EmptyHash, Editor |-> "lvim", Doings |-> EmptyMap, Todos |-> EmptyMap,
     Laters |-> EmptyMap, Diary |-> NilDiary]

\* value of the variable j while no invocation is running
NoJournal ==
    [Hash |-> EmptyHash, Editor |-> "", Doings |-> EmptyMap, Todos |-> EmptyMap,
     Laters |-> EmptyMap, Diary |-> NilDiary]

\* ------------------------------------------------------------- NewNote
\* dpattern: ^(\d\d\d\d)/(\d\d)/(\d\d\d\d)-(\d\d)-(\d\d)\.md$
DMatch(fn) ==
    /\ Len(fn) = 21
    /\ AllDigits(SubSeq(fn, 1, 4)) /\ fn[5] = "/"
    /\ AllDigits(SubSeq(fn, 6, 7)) /\ fn[8] = "/"
    /\ AllDigits(SubSeq(fn, 9, 12)) /\ fn[13] = "-"
    /\ AllDigits(SubSeq(fn, 14, 15)) /\ fn[16] = "-"
    /\ AllDigits(SubSeq(fn, 17, 18))
    /\ SubSeq(fn, 19, 21) = MdSuffix

\* ms[0][1..5]
DGroups(fn) == <<SubSeq(fn, 1, 4), SubSeq(fn, 6, 7), SubSeq(fn, 9, 12),
                 SubSeq(fn, 14, 15), SubSeq(fn, 17, 18)>>

\* variant of IsDiaryPath that does not compare the folder with the file name
IsDiaryShape(fn) == DMatch(fn)

\* the condition of lib.go:270 and lib.go:436
IsDiaryPath(fn) ==
    /\ DMatch(fn)
    /\ DGroups(fn)[1] = DGroups(fn)[3]
    /\ DGroups(fn)[2] = DGroups(fn)[4]

\* the date of "%s-%s-%sT00:00:00" built from ms[0][3], ms[0][4], ms[0][5]
DiaryDate(fn) == <<Atoi(DGroups(fn)[3]), Atoi(DGroups(fn)[4]), Atoi(DGroups(fn)[5])>>

NoteText == "NoteText"
Diary == "Diary"

\* NewNote(fn) on the file st: ok is FALSE where the code panics
NewNote(fn, st) ==
    IF ~st.exists THEN [ok |-> FALSE, Path |-> fn, Type |-> NoteText, Time |-> ZeroTime]
    ELSE IF IsDiaryPath(fn)
    THEN LET r == ParseInLocation(DiaryDate(fn), <<0, 0, 0>>)
         IN [ok |-> r.ok, Path |-> fn, Type |-> Diary, Time |-> r.time]
    ELSE [ok |-> TRUE, Path |-> fn, Type |-> NoteText, Time |-> st.mtime]

\* ---------------------------------------------------- scanning one note
MkTag(tm, lineNo, text) == [Time |-> tm, LineNo |-> lineNo, Tag |-> "", Text |-> text]

\* the switch of lib.go:392-406 applied to every field, rejoined by " "
Rewrite(line, path, nt) ==
    [i \in 1..Len(line) |->
        IF line[i] = MarkDoing THEN Link("DOING", path, nt)
        ELSE IF line[i] = MarkTodo THEN Link("TODO", path, nt)
        ELSE IF line[i] = MarkLater THEN Link("LATER", path, nt)
        ELSE line[i]]

HasField(line, f) == \E i \in 1..Len(line) : line[i] = f

\* variant of ScanLine that keeps the time of the tags at the time of the note
ScanLineStale(path, nd, st, line) ==
    LET hdr == IsTimeHeader(line)
        pr == IF hdr THEN ParseInLocation(nd, line[2].t)
              ELSE [ok |-> TRUE, time |-> st.ctime]
        nt == IF hdr THEN line[2].t ELSE st.nt
        ftext == Rewrite(line, path, nt)
        tag == MkTag(st.ctime, st.lineNo, ftext)
    IN IF ~pr.ok THEN [st EXCEPT !.ok = FALSE]
       ELSE [ok |-> TRUE, nt |-> nt, ctime |-> st.ctime, lineNo |-> st.lineNo + 1,
             doings |-> IF HasField(line, MarkDoing) THEN Append(st.doings, tag) ELSE st.doings,
             todos |-> IF HasField(line, MarkTodo) THEN Append(st.todos, tag) ELSE st.todos,
             laters |-> IF HasField(line, MarkLater) THEN Append(st.laters, tag) ELSE st.laters]

\* variant of ScanLine that appends a tag at every marker field of the line
ScanLinePerField(path, nd, st, line) ==
    LET hdr == IsTimeHeader(line)
        pr == IF hdr THEN ParseInLocation(nd, line[2].t)
              ELSE [ok |-> TRUE, time |-> st.ctime]
        nt == IF hdr THEN line[2].t ELSE st.nt
        ctime == IF hdr THEN pr.time ELSE st.ctime
        ftext == Rewrite(line, path, nt)
        tag == MkTag(ctime, st.lineNo, ftext)
        Times(f) == Cardinality({i \in 1..Len(line) : line[i] = f})
        More(tags, f) == tags \o [i \in 1..Times(f) |-> tag]
    IN IF ~pr.ok THEN [st EXCEPT !.ok = FALSE]
       ELSE [ok |-> TRUE, nt |-> nt, ctime |-> ctime, lineNo |-> st.lineNo + 1,
             doings |-> More(st.doings, MarkDoing),
             todos |-> More(st.todos, MarkTodo),
             laters |-> More(st.laters, MarkLater)]

\* one iteration of the loop of lib.go:379-418
ScanLine(path, nd, st, line) ==
    LET hdr == IsTimeHeader(line)
        pr == IF hdr THEN ParseInLocation(nd, line[2].t)
              ELSE [ok |-> TRUE, time |-> st.ctime]
        nt == IF hdr THEN line[2].t ELSE st.nt
        ctime == IF hdr THEN pr.time ELSE st.ctime
        ftext == Rewrite(line, path, nt)
        tag == MkTag(ctime, st.lineNo, ftext)
    IN IF ~pr.ok THEN [st EXCEPT !.ok = FALSE]
       ELSE [ok |-> TRUE, nt |-> nt, ctime |-> ctime, lineNo |-> st.lineNo + 1,
             doings |-> IF HasField(line, MarkDoing) THEN Append(st.doings, tag) ELSE st.doings,
             todos |-> IF HasField(line, MarkTodo) THEN Append(st.todos, tag) ELSE st.todos,
             laters |-> IF HasField(line, MarkLater) THEN Append(st.laters, tag) ELSE st.laters]

RECURSIVE ScanFrom(_, _, _, _, _)
ScanFrom(path, nd, st, text, i) ==
    IF i > Len(text) \/ ~st.ok THEN st
    ELSE ScanFrom(path, nd, ScanLine(path, nd, st, text[i]), text, i + 1)

\* lib.go:371-418: the three tag lists of note n over the lines text
Scan(n, text) ==
    ScanFrom(n.Path, FormatDate(n.Time),
             [ok |-> TRUE, nt |-> FormatTod(n.Time), ctime |-> n.Time, lineNo |-> 1,
              doings |-> <<>>, todos |-> <<>>, laters |-> <<>>],
             text, 1)

\* variants of Replace the properties below are tried against:
\* the mapping is rebuilt from the scanned note alone
ReplaceAlone(m, path, tags) == IF Len(tags) > 0 THEN Put(EmptyMap, path, tags) ELSE EmptyMap
\* the tags of the scan are appended to the tags the path had
ReplaceMerged(m, path, tags) == IF Len(tags) > 0 THEN Put(m, path, Get(m, path) \o tags) ELSE m
\* the assignment is made whatever the length of the list
ReplaceAlways(m, path, tags) == Put(m, path, tags)

\* lib.go:419-433 for one category
Replace(m, path, tags) == IF Len(tags) > 0 THEN Put(m, path, tags) ELSE Del(m, path)

\* lib.go:434-448: the month index after note n was scanned
DiaryUpdate(d, path, now) ==
    IF ~IsDiaryPath(path) THEN [ok |-> TRUE, Diary |-> d]
    ELSE LET dt == DiaryDate(path)
             lastYearMonth == now.date[1] * 12 + now.date[2] - 3
             yearMonth == dt[1] * 12 + dt[2] - 1
             delta == yearMonth - lastYearMonth
             dtg == DGroups(path)[3] \o <<"-">> \o DGroups(path)[4]
         IN IF ~ParseInLocation(dt, <<0, 0, 0>>).ok THEN [ok |-> FALSE, Diary |-> d]
            ELSE IF delta > 0
            THEN IF d.nil THEN [ok |-> FALSE, Diary |-> d]
                 ELSE [ok |-> TRUE,
                       Diary |-> [d EXCEPT !.m = Put(d.m, dtg,
                                     Append(Get(d.m, dtg), <<DGroups(path)[5], path>>))]]
            ELSE [ok |-> TRUE, Diary |-> d]

\* variant of IsIndexPath without the guard
NeverIndexPath(path) == FALSE

IsIndexPath(path) == HasSuffix(path, SlashIndexName) \/ path = IndexName

\* Note.process on journal jr, the file being st when os.Open is called and
\* openErr telling that os.Open fails with an error other than ErrNotExist
\* (a missing file makes it fail with ErrNotExist): ok is FALSE where the
\* code panics
ProcessNote(jr, n, st, openErr, now) ==
    IF IsIndexPath(n.Path) THEN [ok |-> TRUE, j |-> jr]
    ELSE IF openErr
    THEN [ok |-> TRUE,
          j |-> [jr EXCEPT !.Doings = Del(jr.Doings, n.Path),
                           !.Todos = Del(jr.Todos, n.Path),
                           !.Laters = Del(jr.Laters, n.Path)]]
    ELSE IF ~st.exists THEN [ok |-> FALSE, j |-> jr]
    ELSE LET sc == Scan(n, st.text)
             j1 == [jr EXCEPT !.Doings = Replace(jr.Doings, n.Path, sc.doings),
                              !.Todos = Replace(jr.Todos, n.Path, sc.todos),
                              !.Laters = Replace(jr.Laters, n.Path, sc.laters)]
             du == DiaryUpdate(jr.Diary, n.Path, now)
         IN IF ~sc.ok THEN [ok |-> FALSE, j |-> jr]
            ELSE IF ~du.ok THEN [ok |-> FALSE, j |-> j1]
            ELSE [ok |-> TRUE, j |-> [j1 EXCEPT !.Diary = du.Diary]]

\* ------------------------------------------------------------ rendering
\* every order in which a range over a Go map may visit the keys in S
Orders(S) == {o \in [1..Cardinality(S) -> S] : \A a, b \in 1..Cardinality(S) : o[a] = o[b] => a = b}

\* lib.go:190-195 when the map is visited in the order o
RECURSIVE Flatten(_, _, _)
Flatten(tagMap, o, i) ==
    IF i > Len(o) THEN <<>> ELSE tagMap[o[i]] \o Flatten(tagMap, o, i + 1)

\* sort.Slice on fewer than 12 elements is an insertion sort: an element moves
\* left while less(it, left neighbour), less being tags[i].Time.After(tags[j].Time)
\* variant of Insert whose less is tags[i].Time.Before(tags[j].Time)
RECURSIVE InsertAscending(_, _)
InsertAscending(s, t) ==
    IF s = <<>> THEN <<t>>
    ELSE IF After(s[Len(s)].Time, t.Time)
    THEN Append(InsertAscending(SubSeq(s, 1, Len(s) - 1), t), s[Len(s)])
    ELSE Append(s, t)

RECURSIVE Insert(_, _)
Insert(s, t) ==
    IF s = <<>> THEN <<t>>
    ELSE IF After(t.Time, s[Len(s)].Time)
    THEN Append(Insert(SubSeq(s, 1, Len(s) - 1), t), s[Len(s)])
    ELSE Append(s, t)

RECURSIVE SortSlice(_)
SortSlice(tags) ==
    IF tags = <<>> THEN <<>>
    ELSE Insert(SortSlice(SubSeq(tags, 1, Len(tags) - 1)), tags[Len(tags)])

\* lib.go:190-198: the sorted tags
SortedTags(tagMap, o) == SortSlice(Flatten(tagMap, o, 1))

\* lib.go:199-201: the lines written for the tags
Texts_(tags) == [i \in 1..Len(tags) |-> tags[i].Text]

\* Journal.writeTags when the map is visited in the order o
writeTags(tagMap, o) == Texts_(SortedTags(tagMap, o))

\* every list of lines writeTags may write for tagMap
Sections(tagMap) == {writeTags(tagMap, o) : o \in Orders(DOMAIN tagMap)}

HeadDoing == <<W("#"), W("DOING")>>
HeadTodo == <<W("#"), W("TODO")>>
HeadLater == <<W("#"), W("LATER")>>
Blank == <<>>

\* lib.go:176-183: the lines of index.md, given the lines of the three sections
Document(sd, st, sl) ==
    <<HeadDoing, Blank>> \o sd \o <<Blank, HeadTodo, Blank>> \o st
      \o <<Blank, HeadLater, Blank>> \o sl

\* every document a render of jr may produce
Renders(jr) ==
    {Document(sd, st, sl) : sd \in Sections(jr.Doings), st \in Sections(jr.Todos),
                            sl \in Sections(jr.Laters)}

\* ------------------------------------------------------ persisted state
NoState == [kind |-> "absent", j |-> NoJournal]
CorruptState == [kind |-> "corrupt", j |-> NoJournal]
\* json.MarshalIndent(j): the exported fields
Marshal(jr) == [kind |-> "json", j |-> jr]
\* lib.go:76-89: the error of json.Unmarshal is dropped
Load(sf) == IF sf.kind = "json" THEN sf.j ELSE DefaultJournal

NoIndex == [exists |-> FALSE, doc |-> <<>>]
MkIndex(doc) == [exists |-> TRUE, doc |-> doc]

\* ------------------------------------------------------------- state
VARIABLES
    files,      \* the notes of the tree: path -> file
    stateFile,  \* .journal.json
    indexMd,    \* index.md
    rev,        \* number of commits of the git history; HEAD is commit rev
    commits,    \* the trees of the commits rev - 1 and rev
    cmd,        \* os.Args[1] of the running invocation ("" when none runs)
    j,          \* its Journal
    pc,         \* the calls it still has to make
    changes,    \* the notes of its current pass
    todo,       \* those of them not processed yet
    now,        \* the wall clock
    edits,      \* number of changes the user made
    faults,     \* number of failures so far
    arg,        \* SpecFn: the function applied and its arguments
    res         \* SpecFn: its result, once it is applied

vars == <<files, stateFile, indexMd, rev, commits, cmd, j, pc, changes, todo, now, edits,
          faults, arg, res>>

\* no function is applied
NoArg == [fn |-> "none"]
NoRes == [done |-> FALSE]

\* today's diary file of CreateDiary: now.Format("2006/01") / now.Format("2006-01-02.md")
TodayPath(tm) ==
    Itoa(tm.date[1], 4) \o <<"/">> \o Itoa(tm.date[2], 2) \o <<"/">>
      \o Itoa(tm.date[1], 4) \o <<"-">> \o Itoa(tm.date[2], 2) \o <<"-">> \o Itoa(tm.date[3], 2)
      \o MdSuffix

AllPaths == NotePaths \cup {TodayPath(tm) : tm \in Nows}

Blob(f) == [exists |-> f.exists, text |-> f.text]
NoBlob == Blob(NoFile)

\* the tree git sees in the working directory
WorkTree(fs, sf, ix) == [notes |-> [p \in AllPaths |-> Blob(fs[p])], state |-> sf, index |-> ix]

EmptyTree == WorkTree([p \in AllPaths |-> NoFile], NoState, NoIndex)

\* the .md files of a tree
MdOnly(tree) == [tree EXCEPT !.state = NoState]

Init ==
    /\ files = [p \in AllPaths |-> NoFile]
    /\ stateFile = NoState
    /\ indexMd = NoIndex
    /\ rev = 1
    /\ commits = [r \in {1} |-> EmptyTree]
    /\ cmd = ""
    /\ j = NoJournal
    /\ pc = <<>>
    /\ changes = {}
    /\ todo = {}
    /\ now \in Nows
    /\ edits = 0
    /\ faults = 0
    /\ arg = NoArg
    /\ res = NoRes

Idle == pc = <<>>

\* the budgets of the environment
Edit(yes) == edits' = IF yes THEN edits + 1 ELSE edits
CanEdit(yes) == yes => edits < MaxEdits
Fault(yes) == faults' = IF yes THEN faults + 1 ELSE faults
CanFault(yes) == yes => faults < MaxFaults
Step == IF pc = <<>> THEN "idle" ELSE Head(pc)
Passing == todo # {}

\* ------------------------------------------------------------------ git
GitPaths == AllPaths \cup {IndexName}
TreeBlob(tree, p) == IF p = IndexName THEN tree.index ELSE tree.notes[p]
WorkBlob(p) == IF p = IndexName THEN indexMd ELSE Blob(files[p])
HeadTree == commits[rev]

\* git ls-files . --exclude-standard --others
LsFilesOthers == {p \in GitPaths : WorkBlob(p).exists /\ ~TreeBlob(HeadTree, p).exists}

\* what git diff compares a commit with: the working tree of the tracked paths
AbsentBlob(p) == IF p = IndexName THEN NoIndex ELSE NoBlob
TrackedBlob(p) == IF TreeBlob(HeadTree, p).exists THEN WorkBlob(p) ELSE AbsentBlob(p)

\* git diff <hash> --name-only
GitDiff(hash) == {p \in GitPaths : TrackedBlob(p) # TreeBlob(commits[hash], p)}

\* os.Stat of a path of the tree
Stat(p) ==
    IF p = IndexName
    THEN [exists |-> indexMd.exists, text |-> indexMd.doc, mtime |-> ZeroTime]
    ELSE files[p]

\* lib.go:298-329: the paths of the map changes
ChangePaths(hash) ==
    {fn \in LsFilesOthers : HasSuffix(fn, MdSuffix)}
      \cup {fn \in GitDiff(hash) : HasSuffix(fn, MdSuffix) /\ Stat(fn).exists}

\* lib.go:341-353: the paths WalkDir hands to NewNote
WalkPaths == {fn \in GitPaths : Stat(fn).exists /\ ~IsIndexPath(fn) /\ HasSuffix(fn, MdSuffix)}

\* Journal.Commit on the working tree (fs, sf, ix); gitOk is FALSE when the
\* first git command fails
RECURSIVE SumLen(_, _)
SumLen(m, S) ==
    IF S = {} THEN 0
    ELSE LET k == CHOOSE x \in S : TRUE IN Len(m[k]) + SumLen(m, S \ {k})

\* number of (day, path) pairs of the month index d
DiaryCount(d) == SumLen(d.m, DOMAIN d.m)

Commit(jr, fs, sf, ix, rv, cs, gitOk) ==
    IF ~gitOk
    THEN [ok |-> FALSE, j |-> jr, state |-> sf, rev |-> rv, commits |-> cs]
    ELSE IF WorkTree(fs, sf, ix) # cs[rv]
    THEN LET j2 == [jr EXCEPT !.Hash = rv]
         IN [ok |-> TRUE, j |-> j2, state |-> Marshal(j2), rev |-> rv + 1,
             commits |-> [r \in {rv, rv + 1} |->
                            IF r = rv THEN MdOnly(cs[rv]) ELSE WorkTree(fs, Marshal(j2), ix)]]
    ELSE [ok |-> TRUE, j |-> jr, state |-> sf, rev |-> rv, commits |-> cs]

\* -------------------------------------------------- the user, between runs
UserWrite(p, text, mt) ==
    /\ Idle
    /\ files[p] # MkFile(text, mt)
    /\ files' = [files EXCEPT ![p] = MkFile(text, mt)]
    /\ CanEdit(TRUE) /\ Edit(TRUE)
    /\ UNCHANGED <<stateFile, indexMd, rev, commits, cmd, j, pc, changes, todo, now, faults, arg, res>>

\* a note may also disappear between the Stat of NewNote and the Open of process
UserDelete(p) ==
    /\ Idle \/ Passing
    /\ files[p].exists
    /\ files' = [files EXCEPT ![p] = NoFile]
    /\ CanEdit(TRUE) /\ Edit(TRUE)
    /\ UNCHANGED <<stateFile, indexMd, rev, commits, cmd, j, pc, changes, todo, now, faults, arg, res>>

\* ------------------------------------------------------ one invocation
Commands == {"default", "index", "new", "push", "all"}

\* main.go:10-27: the calls a command makes, in order
Program(c) ==
    CASE c = "default" -> <<"processChanges", "Write">>
      [] c = "index" -> <<"processChanges", "editor", "processChanges", "Write">>
      [] c = "new" -> <<"CreateDiary", "processChanges", "Write">>
      [] c = "push" -> <<"Push">>
      [] c = "all" -> <<"processAll", "Write">>

\* a panic ends the process: what it held in memory is gone
Panic ==
    /\ pc' = <<>>
    /\ cmd' = ""
    /\ j' = NoJournal
    /\ changes' = {}
    /\ todo' = {}

\* so it is when main returns
Return == Panic

\* OpenJournal of an invocation with the command c.  A failure of os.Open,
\* of ReadAll or of the start of git push ends the invocation before it has
\* changed anything; the two bound guards keep the history finite.
OpenJournal(c) ==
    /\ Idle
    /\ rev < MaxRev
    /\ DiaryCount(Load(stateFile).Diary) < MaxDiary
    /\ j' = Load(stateFile)
    /\ pc' = Program(c)
    /\ cmd' = c
    /\ UNCHANGED <<files, stateFile, indexMd, rev, commits, changes, todo, now, edits, faults, arg, res>>

\* the notes NewNote builds for the paths S; ok is FALSE when one of them panics
Notes(S) == {NewNote(fn, Stat(fn)) : fn \in S}
NotesOk(S) == \A fn \in S : NewNote(fn, Stat(fn)).ok

\* begin a pass over the notes ns; with nothing to process the pass is over
BeginPass(ns) ==
    /\ changes' = ns
    /\ todo' = ns
    /\ pc' = IF ns = {} THEN Tail(pc) ELSE pc
    /\ cmd' = cmd

\* variant of MakeMaps that makes the month index only
MakeDiaryOnly(jr) == [jr EXCEPT !.Diary = MadeDiary]

\* lib.go:337-340: the four maps are made anew
MakeMaps(jr) ==
    [jr EXCEPT !.Doings = EmptyMap, !.Todos = EmptyMap, !.Laters = EmptyMap,
               !.Diary = MadeDiary]

\* Journal.processAll up to the first callback of WalkDir
processAll ==
    /\ Step = "processAll" /\ ~Passing
    /\ IF NotesOk(WalkPaths)
       THEN /\ j' = MakeMaps(j)
            /\ BeginPass(Notes(WalkPaths))
       ELSE Panic
    /\ UNCHANGED <<files, stateFile, indexMd, rev, commits, now, edits, faults, arg, res>>

\* Journal.processChanges up to the loop of lib.go:330
processChanges ==
    /\ Step = "processChanges" /\ ~Passing
    /\ IF j.Hash = EmptyHash
       THEN /\ pc' = <<"processAll">> \o Tail(pc)
            /\ UNCHANGED <<cmd, j, changes, todo>>
       ELSE IF NotesOk(ChangePaths(j.Hash))
       THEN /\ j' = j
            /\ BeginPass(Notes(ChangePaths(j.Hash)))
       ELSE Panic
    /\ UNCHANGED <<files, stateFile, indexMd, rev, commits, now, edits, faults, arg, res>>

\* Note.process of one note of the pass; no file is opened for index.md
process(n, openErr) ==
    /\ n \in todo
    /\ openErr => ~IsIndexPath(n.Path)
    /\ LET r == ProcessNote(j, n, Stat(n.Path), openErr, now)
       IN IF r.ok
          THEN /\ j' = r.j
               /\ todo' = todo \ {n}
               /\ pc' = IF todo = {n} THEN Tail(pc) ELSE pc
               /\ UNCHANGED <<cmd, changes>>
          ELSE Panic
    /\ CanFault(openErr) /\ Fault(openErr)
    /\ UNCHANGED <<files, stateFile, indexMd, rev, commits, now, edits, arg, res>>

\* what the user may leave in index.md when the editor of OpenIndex exits
UserIndex == MkIndex(<< <<W("edited"), MarkTodo>> >>)

\* lib.go:206-213: the editor on index.md; ok is the exit status of the editor
OpenIndexEditor(ok, save) ==
    /\ Step = "editor"
    /\ indexMd' = IF save THEN UserIndex ELSE indexMd
    /\ IF ok
       THEN /\ pc' = Tail(pc)
            /\ UNCHANGED <<cmd, j, changes, todo>>
       ELSE Panic
    /\ CanEdit(save) /\ Edit(save)
    /\ CanFault(~ok) /\ Fault(~ok)
    /\ UNCHANGED <<files, stateFile, rev, commits, now, arg, res>>

\* lib.go:218-260: the editor on today's diary file; the user may save a text
CreateDiary(ok, save, text, mt) ==
    /\ Step = "CreateDiary"
    /\ files' = IF save THEN [files EXCEPT ![TodayPath(now)] = MkFile(text, mt)] ELSE files
    /\ IF ok
       THEN /\ pc' = Tail(pc)
            /\ UNCHANGED <<cmd, j, changes, todo>>
       ELSE Panic
    /\ CanEdit(save) /\ Edit(save)
    /\ CanFault(~ok) /\ Fault(~ok)
    /\ UNCHANGED <<stateFile, indexMd, rev, commits, now, arg, res>>

\* the numbers of lines of doc a short write may leave on the disk
ShortLens(doc) == {0, Len(doc) - 1}

WriteOutcomes == {"ok", "short", "git", "configOpen", "configShort", "create"}

\* Journal.Write: writeConfig, os.Create, the three sections, Commit.
\* outcome names the I/O call that fails, doc is the document this render
\* produces (one of Renders(j)), k the number of its lines that reach the disk on a short write
\* (the results of WriteString are dropped).
Write(outcome, doc, k) ==
    /\ Step = "Write" /\ ~Passing
    /\ CASE outcome = "configOpen" ->
              /\ Panic
              /\ UNCHANGED <<stateFile, indexMd, rev, commits>>
         [] outcome = "configShort" ->
              /\ stateFile' = CorruptState
              /\ Panic
              /\ UNCHANGED <<indexMd, rev, commits>>
         [] outcome = "create" ->
              /\ stateFile' = Marshal(j)
              /\ Panic
              /\ UNCHANGED <<indexMd, rev, commits>>
         [] outcome \in {"ok", "short", "git"} ->
              LET ix == MkIndex(IF outcome = "short" THEN SubSeq(doc, 1, k) ELSE doc)
                  c == Commit(j, files, Marshal(j), ix, rev, commits, outcome # "git")
              IN /\ outcome # "short" => k = 0
                 /\ k \in ShortLens(doc)
                 /\ stateFile' = c.state
                 /\ indexMd' = ix
                 /\ rev' = c.rev
                 /\ commits' = c.commits
                 /\ IF c.ok THEN Return ELSE Panic
    /\ CanFault(outcome # "ok") /\ Fault(outcome # "ok")
    /\ UNCHANGED <<files, now, edits, arg, res>>

\* Journal.Push: Commit, then git pull --rebase and git push (pushOk: both succeed)
Push(gitOk, pushOk) ==
    /\ Step = "Push"
    /\ LET c == Commit(j, files, stateFile, indexMd, rev, commits, gitOk)
       IN /\ stateFile' = c.state
          /\ rev' = c.rev
          /\ commits' = c.commits
          /\ IF c.ok /\ pushOk THEN Return ELSE Panic
    /\ CanFault(~(gitOk /\ pushOk)) /\ Fault(~(gitOk /\ pushOk))
    /\ UNCHANGED <<files, indexMd, now, edits, arg, res>>


Next ==
    \/ \E p \in AllPaths, text \in Texts, mt \in MTimes : UserWrite(p, text, mt)
    \/ \E p \in AllPaths : UserDelete(p)
    \/ \E c \in Commands : OpenJournal(c)
    \/ processAll
    \/ processChanges
    \/ \E n \in todo, openErr \in BOOLEAN : process(n, openErr)
    \/ \E ok \in BOOLEAN, save \in BOOLEAN : OpenIndexEditor(ok, save)
    \/ \E ok \in BOOLEAN, save \in BOOLEAN, text \in Texts, mt \in MTimes : CreateDiary(ok, save, text, mt)
    \/ /\ Step = "Write"
       /\ \E doc \in Renders(j), outcome \in WriteOutcomes :
             \E k \in ShortLens(doc) : Write(outcome, doc, k)
    \/ \E gitOk \in BOOLEAN, pushOk \in BOOLEAN : Push(gitOk, pushOk)

Spec == Init /\ [][Next]_vars

\* ------------------------------------------- NewNote and the scan alone
\* SpecFn applies Journal.NewNote and the scan of Note.process to arguments
\* the runs of Spec do not reach: paths of every shape, texts of every
\* make-up.
\* Number of lines of a scanned text.
MaxText == 3

FnYears == {2023, 2024}
FnMonths == {2, 3, 13}
FnDays == {0, 5, 30}

\* the path y1/m1/y2-m2-d.md
DiaryShaped(y1, m1, y2, m2, d) ==
    Itoa(y1, 4) \o <<"/">> \o Itoa(m1, 2) \o <<"/">>
      \o Itoa(y2, 4) \o <<"-">> \o Itoa(m2, 2) \o <<"-">> \o Itoa(d, 2) \o MdSuffix

FnPaths ==
    {DiaryShaped(y1, m1, y2, m2, d) :
        y1 \in FnYears, m1 \in FnMonths, y2 \in FnYears, m2 \in FnMonths, d \in FnDays}
      \cup {PathA, IndexName, <<"x", "/">> \o PathDiary, PathDiary \o <<"x">>,
            SubSeq(PathDiary, 1, 16) \o <<"5">> \o MdSuffix}

FnLines ==
    {<<W("z"), MarkTodo>>, <<W("##"), Hms(8, 0, 0)>>, <<W("##"), Hms(9, 0, 0)>>,
     <<W("##"), Hms(24, 0, 0)>>, <<MarkDoing, W("x"), MarkLater>>,
     <<MarkTodo, W("y"), MarkTodo>>, <<W("hello")>>}

FnTexts == UNION {[1..n -> FnLines] : n \in 0..MaxText}

FnNotes == {NewNote(p, MkFile(TextPlain, mt)) : p \in NotePaths, mt \in MTimes}

FnArgs ==
    {[fn |-> "NewNote", path |-> p, st |-> MkFile(TextPlain, mt)] :
        p \in FnPaths, mt \in MTimes}
      \cup {[fn |-> "Scan", n |-> n, text |-> t] : n \in FnNotes, t \in FnTexts}

InitFn ==
    /\ files = [p \in AllPaths |-> NoFile]
    /\ stateFile = NoState
    /\ indexMd = NoIndex
    /\ rev = 1
    /\ commits = [r \in {1} |-> EmptyTree]
    /\ cmd = ""
    /\ j = NoJournal
    /\ pc = <<>>
    /\ changes = {}
    /\ todo = {}
    /\ now \in Nows
    /\ edits = 0
    /\ faults = 0
    /\ arg \in FnArgs
    /\ res = NoRes

\* Journal.NewNote(arg.path) on the file arg.st
ApplyNewNote ==
    /\ arg.fn = "NewNote" /\ ~res.done
    /\ res' = [done |-> TRUE, v |-> NewNote(arg.path, arg.st)]
    /\ UNCHANGED <<files, stateFile, indexMd, rev, commits, cmd, j, pc, changes, todo, now,
                   edits, faults, arg>>

\* the scan of Note.process of the note arg.n over the lines arg.text
ApplyScan ==
    /\ arg.fn = "Scan" /\ ~res.done
    /\ res' = [done |-> TRUE, v |-> Scan(arg.n, arg.text)]
    /\ UNCHANGED <<files, stateFile, indexMd, rev, commits, cmd, j, pc, changes, todo, now,
                   edits, faults, arg>>

NextFn == ApplyNewNote \/ ApplyScan

SpecFn == InitFn /\ [][NextFn]_vars

\* ------------------------------------ creations and edits, no failures
\* SpecEdits: a repository whose first commit holds the note a.md; the user
\* creates and rewrites notes, every run is the default command and none of
\* its calls fails.
InitSeeded ==
    /\ \E mt \in MTimes : files = [p \in AllPaths |->
                                      IF p = PathA THEN MkFile(TextMixed, mt) ELSE NoFile]
    /\ stateFile = NoState
    /\ indexMd = NoIndex
    /\ rev = 1
    /\ commits = [r \in {1} |-> WorkTree(files, NoState, NoIndex)]
    /\ cmd = ""
    /\ j = NoJournal
    /\ pc = <<>>
    /\ changes = {}
    /\ todo = {}
    /\ now \in Nows
    /\ edits = 0
    /\ faults = 0
    /\ arg = NoArg
    /\ res = NoRes

NextEdits ==
    \/ \E p \in AllPaths, text \in Texts, mt \in MTimes : UserWrite(p, text, mt)
    \/ OpenJournal("default")
    \/ processAll
    \/ processChanges
    \/ \E n \in todo : process(n, FALSE)
    \/ /\ Step = "Write"
       /\ \E doc \in Renders(j) : Write("ok", doc, 0)

SpecEdits == InitSeeded /\ [][NextEdits]_vars

\* ------------------------------------------------------------ properties
PathsOf(ns) == {n.Path : n \in ns}

\* the entries of path p in the three category mappings of jr
Slots(jr, p) == <<Get(jr.Doings, p), Get(jr.Todos, p), Get(jr.Laters, p)>>

\* p is a key of one of the three category mappings of jr
Tagged(jr, p) == p \in DOMAIN jr.Doings \cup DOMAIN jr.Todos \cup DOMAIN jr.Laters

\* jr with the entries of path p deleted from the three category mappings
Purged(jr, p) ==
    [jr EXCEPT !.Doings = Del(jr.Doings, p), !.Todos = Del(jr.Todos, p),
               !.Laters = Del(jr.Laters, p)]

\* C1: an incremental pass (non-empty marker) that runs while a note with
\* entries is gone from the disk and git diff reports its path as changed
\* leaves the path in none of the three mappings.  Stated for the pass that
\* is over with its first step: the one that selects no note.
C1_DeletedNotePurged ==
    [][(Step = "processChanges" /\ ~Passing /\ j.Hash # EmptyHash /\ pc' = Tail(pc))
         => \A p \in AllPaths :
               (Tagged(j, p) /\ ~files[p].exists /\ p \in GitDiff(j.Hash))
                  => ~Tagged(j', p)]_vars

\* C2: when the file of a note is missing at os.Open, Note.process does not
\* abort the run and deletes the entries of the path and nothing else; when
\* os.Open fails for another reason the run aborts and the persisted
\* mappings stay as they were.
C2_OpenFailure ==
    [][\A n \in todo :
         /\ (process(n, FALSE) /\ ~IsIndexPath(n.Path) /\ ~Stat(n.Path).exists)
               => (pc' # <<>> /\ j' = Purged(j, n.Path))
         /\ (process(n, TRUE) /\ ~IsIndexPath(n.Path) /\ Stat(n.Path).exists)
               => (pc' = <<>> /\ j' = NoJournal /\ stateFile' = stateFile)]_vars

\* C3: an incremental pass changes the entries of the selected notes only.
\* Its first step selects the untracked .md files and the .md files git diff
\* reports that exist on the disk; no step of the pass changes, in any of the
\* three mappings, the tag list of a path outside the selection.
C3_Frame ==
    [][(Step = "processChanges" /\ j.Hash # EmptyHash /\ pc' # <<>>)
         => /\ ~Passing =>
                 PathsOf(changes') =
                     {p \in GitPaths : HasSuffix(p, MdSuffix)
                          /\ (p \in LsFilesOthers \/ (p \in GitDiff(j.Hash) /\ Stat(p).exists))}
            /\ Passing => changes' = changes
            /\ \A p \in GitPaths :
                 p \notin PathsOf(changes') => Slots(j', p) = Slots(j, p)]_vars

\* an incremental pass of the default command is over, it processed a tagged
\* note, and a tagged note outside its selection is in the journal
C3_Witness ==
    /\ cmd = "default" /\ Step = "Write" /\ j.Hash # EmptyHash
    /\ \E p, q \in AllPaths :
         /\ p \notin PathsOf(changes) /\ Tagged(j, p) /\ Tagged(Load(stateFile), p)
         /\ q \in PathsOf(changes) /\ Tagged(j, q)

\* the numbers of the lines of text that hold the field mark
Marked(text, mark) == {i \in 1..Len(text) : HasField(text[i], mark)}

\* the tag list e holds one tag for every line of text with the field mark,
\* in the order of the lines, and is the entry of path in the mapping m
\* (no entry when there is no such line)
EntryOfScan(m, path, e, text, mark) ==
    /\ Len(e) = Cardinality(Marked(text, mark))
    /\ {e[i].LineNo : i \in 1..Len(e)} = Marked(text, mark)
    /\ \A i, k \in 1..Len(e) : i < k => e[i].LineNo < e[k].LineNo
    /\ Get(m, path) = e
    /\ path \in DOMAIN m <=> Marked(text, mark) # {}

\* C4: after Note.process has scanned a note, the entry of its path in each
\* category is exactly the tag list of this scan, one tag per marked line,
\* and the path is no key of a category the scan found no tag for.
C4_Replaced ==
    [][\A n \in todo :
         (process(n, FALSE) /\ pc' # <<>> /\ ~IsIndexPath(n.Path))
            => LET text == files[n.Path].text
                   sc == Scan(n, text)
               IN /\ EntryOfScan(j'.Doings, n.Path, sc.doings, text, MarkDoing)
                  /\ EntryOfScan(j'.Todos, n.Path, sc.todos, text, MarkTodo)
                  /\ EntryOfScan(j'.Laters, n.Path, sc.laters, text, MarkLater)]_vars

\* a note whose persisted entries are those of its former text was processed
\* by an incremental pass: it has lost the TODO entry and the LATER entry
C4_Witness ==
    /\ cmd = "default" /\ pc # <<>> /\ j.Hash # EmptyHash /\ faults = 0
    /\ \E n \in changes \ todo :
         /\ n.Path \in AllPaths
         /\ files[n.Path].exists /\ files[n.Path].text = TextPlain
         /\ n.Path \in DOMAIN Load(stateFile).Todos
         /\ n.Path \in DOMAIN Load(stateFile).Laters
         /\ ~Tagged(j, n.Path)

\* no key of a category mapping of jr is mapped to the empty list
NoEmptyList(jr) ==
    /\ \A p \in DOMAIN jr.Doings : Len(jr.Doings[p]) > 0
    /\ \A p \in DOMAIN jr.Todos : Len(jr.Todos[p]) > 0
    /\ \A p \in DOMAIN jr.Laters : Len(jr.Laters[p]) > 0

\* C5: whatever full passes, incremental passes and removals of notes have
\* happened since the empty journal, neither the journal in memory nor the
\* persisted one maps a path to an empty tag list in DOING, TODO or LATER.
C5_NoEmptyList == NoEmptyList(j) /\ NoEmptyList(Load(stateFile))

\* a pass is over that scanned a note without any tag and a note with tags:
\* the first is no key of the mappings, the second is
C5_Witness ==
    /\ Step = "Write"
    /\ \E p, q \in AllPaths \cap PathsOf(changes) :
         /\ files[p].exists /\ files[p].text = TextPlain /\ ~Tagged(j, p)
         /\ files[q].exists /\ files[q].text = TextMixed /\ Tagged(j, q)

\* the paths the month index d lists
DiaryPaths(d) == UNION {{d.m[k][i][2] : i \in 1..Len(d.m[k])} : k \in DOMAIN d.m}

\* C6: processChanges with an empty marker hands over to processAll;
\* processAll first empties DOING, TODO, LATER and the month index and
\* selects every .md file of the tree but index.md and */index.md; from
\* then on to the end of the pass the mappings and the month index hold
\* entries only of notes this pass has found in the tree and processed.
C6_FullRescan ==
    [][/\ (Step = "processChanges" /\ ~Passing /\ j.Hash = EmptyHash)
            => (pc' = <<"processAll">> \o Tail(pc) /\ j' = j)
       /\ (Step = "processAll" /\ ~Passing /\ pc' # <<>>)
            => /\ j'.Doings = EmptyMap /\ j'.Todos = EmptyMap /\ j'.Laters = EmptyMap
               /\ j'.Diary = MadeDiary
               /\ PathsOf(changes') =
                    {p \in GitPaths : Stat(p).exists /\ HasSuffix(p, MdSuffix)
                                        /\ p # IndexName /\ ~HasSuffix(p, SlashIndexName)}
               /\ todo' = changes'
       /\ (Step = "processAll" /\ pc' # <<>>)
            => /\ \A p \in GitPaths :
                    (Tagged(j', p) \/ p \in DiaryPaths(j'.Diary))
                        => p \in PathsOf(changes' \ todo')
               /\ pc' # pc => todo' = {}]_vars

\* the full pass of a run with an empty marker is over, and a path the
\* persisted mappings hold entries of has none in the journal
C6_Witness ==
    /\ cmd = "default" /\ Step = "Write" /\ j.Hash = EmptyHash
    /\ \E p \in AllPaths : Tagged(Load(stateFile), p) /\ ~Tagged(j, p) /\ ~files[p].exists

\* the three category mappings of a and of b are the same
SameMaps(a, b) == a.Doings = b.Doings /\ a.Todos = b.Todos /\ a.Laters = b.Laters

\* C7: a step of a pass or of Journal.Write, failing or not, either leaves
\* .journal.json and index.md as they are or leaves both rewritten from
\* the journal: the state file with its mappings, index.md with a whole
\* render of them.
C7_AllOrNothing ==
    [][(Step = "processChanges" \/ Step = "processAll" \/ Step = "Write")
         => \/ stateFile' = stateFile /\ indexMd' = indexMd
            \/ /\ stateFile'.kind = "json" /\ SameMaps(Load(stateFile'), j)
               /\ indexMd'.exists /\ indexMd'.doc \in Renders(j)]_vars

\* C8: while .journal.json is corrupt no run gets past its start, and
\* neither .journal.json nor index.md is written.
C8_CorruptAborts ==
    [][(stateFile.kind = "corrupt")
         => (pc' = <<>> /\ stateFile' = stateFile /\ indexMd' = indexMd)]_vars

\* the tags of the mapping m, each named by its path and its position
TagRefs(m) == UNION {{<<p, i>> : i \in 1..Len(m[p])} : p \in DOMAIN m}

\* lines lists the text of every tag of m exactly once, and no tag before a
\* tag with a later time
Listing(lines, m) ==
    /\ Len(lines) = Cardinality(TagRefs(m))
    /\ \E f \in [1..Len(lines) -> TagRefs(m)] :
         /\ \A a, b \in 1..Len(lines) : f[a] = f[b] => a = b
         /\ \A a \in 1..Len(lines) : lines[a] = m[f[a][1]][f[a][2]].Text
         /\ \A a, b \in 1..Len(lines) :
              a < b => ~After(m[f[b][1]][f[b][2]].Time, m[f[a][1]][f[a][2]].Time)

\* doc is the heading DOING, TODO and LATER in this order, each followed by
\* a listing of the tags of its mapping
Rendered(doc, jr) ==
    LET nd == Cardinality(TagRefs(jr.Doings))
        nt == Cardinality(TagRefs(jr.Todos))
        nl == Cardinality(TagRefs(jr.Laters))
    IN /\ Len(doc) = nd + nt + nl + 8
       /\ SubSeq(doc, 1, 2) = <<HeadDoing, Blank>>
       /\ Listing(SubSeq(doc, 3, nd + 2), jr.Doings)
       /\ SubSeq(doc, nd + 3, nd + 5) = <<Blank, HeadTodo, Blank>>
       /\ Listing(SubSeq(doc, nd + 6, nd + nt + 5), jr.Todos)
       /\ SubSeq(doc, nd + nt + 6, nd + nt + 8) = <<Blank, HeadLater, Blank>>
       /\ Listing(SubSeq(doc, nd + nt + 9, nd + nt + nl + 8), jr.Laters)

\* C9: the document a Journal.Write without a failing call leaves in
\* index.md has the sections DOING, TODO and LATER in this order, and each
\* section lists every tag of every note of its mapping exactly once, no
\* tag before a tag with a later timestamp.
C9_Rendered ==
    [][(Step = "Write" /\ faults' = faults)
         => (indexMd'.exists /\ Rendered(indexMd'.doc, j))]_vars

\* a run is over whose render lists the tags of two notes, among them tags
\* of different timestamps
C9_Witness ==
    /\ Idle /\ stateFile.kind = "json" /\ indexMd.exists
    /\ Cardinality(DOMAIN Load(stateFile).Todos) = 2
    /\ Rendered(indexMd.doc, Load(stateFile))

\* C10: rendering is a function of the three mappings: whatever order the
\* maps are visited in, a render of the journal produces one and the same
\* document, ties of the timestamps included.
C10_Deterministic == Step = "Write" => Cardinality(Renders(j)) = 1

\* the entries of the month index d that list the path p
DiaryRefs(d, p) ==
    UNION {{<<k, i>> : i \in {i \in 1..Len(d.m[k]) : d.m[k][i][2] = p}} : k \in DOMAIN d.m}

\* the number of months the month of the diary file path lies before the
\* month of tm
MonthsOlder(path, tm) ==
    (tm.date[1] * 12 + tm.date[2]) - (DiaryDate(path)[1] * 12 + DiaryDate(path)[2])

\* C11: Note.process records a diary file in the month index exactly when
\* its month is more than 3 months older than the current month.
C11_Retention ==
    [][\A n \in todo :
         (process(n, FALSE) /\ pc' # <<>> /\ IsDiaryPath(n.Path))
            => ((Cardinality(DiaryRefs(j'.Diary, n.Path))
                    > Cardinality(DiaryRefs(j.Diary, n.Path)))
                  <=> MonthsOlder(n.Path, now) > 3)]_vars

\* C12: no step of an incremental pass changes the month index.
C12_IndexFrame ==
    [][(Step = "processChanges" /\ j.Hash # EmptyHash /\ pc' # <<>>)
         => j'.Diary = j.Diary]_vars

\* C13: the month index, in memory and persisted, lists a diary file at
\* most once.
C13_OneEntry ==
    \A p \in AllPaths :
        /\ Cardinality(DiaryRefs(j.Diary, p)) <= 1
        /\ Cardinality(DiaryRefs(Load(stateFile).Diary, p)) <= 1

\* the time heading in force at line i of text: the last one at or before
\* line i (0 when there is none)
HeadingAt(text, i) ==
    LET H == {k \in 1..i : IsTimeHeader(text[k])}
    IN IF H = {} THEN 0 ELSE CHOOSE k \in H : \A h \in H : h <= k

\* tag, of the category with the marker mark, is the tag
\* of its line of the text of note n: its time is the date of the note at
\* the time of the heading in force (the time of the note when there is
\* none), its text is the line with every marker turned into the link to
\* the note at the time of day of that time
TagOfLine(n, text, tag, mark) ==
    /\ tag.LineNo \in 1..Len(text)
    /\ LET line == text[tag.LineNo]
           h == HeadingAt(text, tag.LineNo)
       IN /\ HasField(line, mark)
          /\ tag.Time = IF h = 0 THEN n.Time ELSE MkTime(n.Time.date, text[h][2].t, 0)
          /\ Len(tag.Text) = Len(line)
          /\ \A f \in 1..Len(line) :
               IF line[f] = MarkDoing THEN tag.Text[f] = Link("DOING", n.Path, tag.Time.tod)
               ELSE IF line[f] = MarkTodo THEN tag.Text[f] = Link("TODO", n.Path, tag.Time.tod)
               ELSE IF line[f] = MarkLater THEN tag.Text[f] = Link("LATER", n.Path, tag.Time.tod)
               ELSE tag.Text[f] = line[f]

TagsOfLines(n, text, tags, mark) ==
    /\ \A i \in 1..Len(tags) : TagOfLine(n, text, tags[i], mark)
    /\ {tags[i].LineNo : i \in 1..Len(tags)} = Marked(text, mark)

\* C14: every tag of a scan has the date of the note at the time of the
\* nearest ## HH:MM:SS heading at or before its line, or the time of the
\* note when no heading precedes it; the link of its text carries the time
\* of day of that timestamp; its line number is the 1-based number of its
\* line.
C14_Timestamps ==
    (arg.fn = "Scan" /\ res.done /\ res.v.ok)
       => /\ TagsOfLines(arg.n, arg.text, res.v.doings, MarkDoing)
          /\ TagsOfLines(arg.n, arg.text, res.v.todos, MarkTodo)
          /\ TagsOfLines(arg.n, arg.text, res.v.laters, MarkLater)

\* a text of two headings and a tagged line has been scanned
C14_Witness ==
    /\ arg.fn = "Scan" /\ res.done /\ res.v.ok
    /\ Len(arg.text) = 3
    /\ IsTimeHeader(arg.text[1]) /\ IsTimeHeader(arg.text[2])
    /\ arg.text[1] # arg.text[2]
    /\ Len(res.v.doings) = 1 /\ res.v.doings[1].LineNo = 3

\* the tags of the list tags with the line number i
AtLine(tags, i) == {k \in 1..Len(tags) : tags[k].LineNo = i}

\* C16: a scanned line yields exactly one tag in the list of every category
\* a marker of which it holds, however often, and none in the others; the
\* tags of one line have the same line number, timestamp and text.
C16_OnePerCategory ==
    (arg.fn = "Scan" /\ res.done /\ res.v.ok)
       => \A i \in 1..Len(arg.text) :
            /\ Cardinality(AtLine(res.v.doings, i))
                 = IF HasField(arg.text[i], MarkDoing) THEN 1 ELSE 0
            /\ Cardinality(AtLine(res.v.todos, i))
                 = IF HasField(arg.text[i], MarkTodo) THEN 1 ELSE 0
            /\ Cardinality(AtLine(res.v.laters, i))
                 = IF HasField(arg.text[i], MarkLater) THEN 1 ELSE 0
            /\ LET all == {res.v.doings[k] : k \in AtLine(res.v.doings, i)}
                            \cup {res.v.todos[k] : k \in AtLine(res.v.todos, i)}
                            \cup {res.v.laters[k] : k \in AtLine(res.v.laters, i)}
               IN Cardinality(all) <= 1

\* a text with a line of two categories and a line with a marker twice has
\* been scanned
C16_Witness ==
    /\ arg.fn = "Scan" /\ res.done /\ res.v.ok
    /\ \E i, k \in 1..Len(arg.text) :
         /\ arg.text[i] = <<MarkDoing, W("x"), MarkLater>>
         /\ arg.text[k] = <<MarkTodo, W("y"), MarkTodo>>
    /\ Len(res.v.doings) = 1 /\ Len(res.v.laters) = 1 /\ Len(res.v.todos) = 1

\* the paths jr holds as a key of a category mapping or lists in the month
\* index
KeysOf(jr) ==
    DOMAIN jr.Doings \cup DOMAIN jr.Todos \cup DOMAIN jr.Laters \cup DiaryPaths(jr.Diary)

\* C15: index.md and */index.md are never scanned: neither the journal in
\* memory nor the persisted one has such a path as a key of DOING, TODO or
\* LATER or as a member of the month index.
C15_IndexNeverScanned ==
    \A p \in KeysOf(j) \cup KeysOf(Load(stateFile)) :
        ~HasSuffix(p, SlashIndexName) /\ p # IndexName

\* an incremental pass had index.md, which the user has left with a marker,
\* among its changes and is through with it
C15_Witness ==
    /\ cmd = "index" /\ Step = "Write" /\ j.Hash # EmptyHash
    /\ indexMd = UserIndex /\ HasField(indexMd.doc[1], MarkTodo)
    /\ \E n \in changes \ todo : n.Path = IndexName

\* fn has the shape YYYY/MM/YYYY-MM-DD.md, the leading year is the trailing
\* year and the leading month the trailing month
ConsistentDiaryForm(fn) ==
    /\ DMatch(fn)
    /\ SubSeq(fn, 1, 4) = SubSeq(fn, 9, 12)
    /\ SubSeq(fn, 6, 7) = SubSeq(fn, 14, 15)

\* the trailing YYYY-MM-DD of fn
TrailingDate(fn) == <<Atoi(SubSeq(fn, 9, 12)), Atoi(SubSeq(fn, 14, 15)), Atoi(SubSeq(fn, 17, 18))>>

\* the note is a diary entry at the midnight of the trailing date of fn
IsDiaryNote(note, fn) ==
    /\ note.ok /\ note.Path = fn /\ note.Type = Diary
    /\ note.Time = MkTime(TrailingDate(fn), <<0, 0, 0>>, 0)

\* the note is a plain note at the modification time of the file st
IsPlainNote(note, fn, st) ==
    /\ note.ok /\ note.Path = fn /\ note.Type = NoteText /\ note.Time = st.mtime

\* C17 as claimed: NewNote on an existing file yields a diary entry at the
\* midnight of the trailing date exactly for the paths of the consistent
\* shape YYYY/MM/YYYY-MM-DD.md, and for every other path a plain note at
\* the modification time of the file, without an error.
C17_Classify ==
    (arg.fn = "NewNote" /\ res.done)
       => IF ConsistentDiaryForm(arg.path)
          THEN IsDiaryNote(res.v, arg.path)
          ELSE IsPlainNote(res.v, arg.path, arg.st)

\* C17 as amended: for a path of the consistent shape NewNote yields the
\* diary entry when the trailing YYYY-MM-DD is a date of the calendar and
\* aborts the run when it is not; for every other path it yields a plain
\* note at the modification time of the file, without an error.
C17_ClassifyValidDate ==
    (arg.fn = "NewNote" /\ res.done)
       => IF ConsistentDiaryForm(arg.path)
          THEN IF TrailingDate(arg.path)[2] \in 1..12
                  /\ TrailingDate(arg.path)[3] \in
                       1..DaysIn(TrailingDate(arg.path)[1], TrailingDate(arg.path)[2])
               THEN IsDiaryNote(res.v, arg.path)
               ELSE ~res.v.ok
          ELSE IsPlainNote(res.v, arg.path, arg.st)

\* NewNote has classified a diary-shaped path under the folder of another
\* month
C17_Witness ==
    /\ arg.fn = "NewNote" /\ res.done
    /\ arg.path = DiaryShaped(2024, 2, 2024, 3, 5)
    /\ res.v.Type = NoteText

\* the scan of the note at path p of the tree as it is
ScanAt(p) == Scan(NewNote(p, Stat(p)), Stat(p).text)

\* the three mappings a full rescan of the tree as it is produces
FullRescan ==
    [Doings |-> [p \in {q \in WalkPaths : ScanAt(q).doings # <<>>} |-> ScanAt(p).doings],
     Todos |-> [p \in {q \in WalkPaths : ScanAt(q).todos # <<>>} |-> ScanAt(p).todos],
     Laters |-> [p \in {q \in WalkPaths : ScanAt(q).laters # <<>>} |-> ScanAt(p).laters]]

\* C18: after a full rescan and any creations and edits of notes, each
\* followed by a run, the mappings an incremental pass leaves are the
\* mappings a full rescan of the tree would produce.
C18_IncrementalIsFull ==
    (Step = "Write" /\ j.Hash # EmptyHash) => SameMaps(j, FullRescan)

\* C19: whenever Note.process reaches the month-index update of an existing
\* diary file, the month index is an initialized mapping, so no pass aborts
\* on writing into an uninitialized one.
C19_DiaryInitialized ==
    [][\A n \in todo :
          (process(n, FALSE) /\ Stat(n.Path).exists /\ IsDiaryPath(n.Path))
              => (~j.Diary.nil /\ pc' # <<>>)]_vars

\* the synchronization marker: the one of the journal of the running
\* invocation, and between invocations the one the next OpenJournal loads
Marker == IF Idle THEN Load(stateFile).Hash ELSE j.Hash

\* C20: once the marker is non-empty it never becomes empty again.
C20_MarkerStays == [][(Marker # EmptyHash) => (Marker' # EmptyHash)]_vars
====
